---------------------------- MODULE Spec2Model ----------------------------
(***************************************************************************)
(* A model of python/sglang/srt/disaggregation/mini_lb.py: the minimal     *)
(* HTTP load balancer in front of a pool of prefill servers and a pool of  *)
(* decode servers.                                                         *)
(*                                                                         *)
(* The program runs on one asyncio event loop: a handler runs without      *)
(* interruption from one await to the next, so every action below is the   *)
(* code between two suspension points of one handler.                      *)
(***************************************************************************)
EXTENDS Integers, Sequences, FiniteSets, TLC

(***************************************************************************)
(* Bounds of the model.                                                    *)
(***************************************************************************)
MaxPrefill == 2
MaxDecode == 2
NumReq == 3
MaxChunks == 2
NumCallers == 2
MaxBatch == 2

(***************************************************************************)
(* Program constants.                                                      *)
(***************************************************************************)
DefaultBootstrapPort == 8998
\* The top of the bootstrap room range, 2**63 - 1, scaled down to one bit.
MaxRoom == 1

VARIABLES
    prefill_configs,      \* MiniLoadBalancer.prefill_configs: sequence of PrefillConfig
    decode_servers,       \* MiniLoadBalancer.decode_servers: sequence of urls
    round_robin_counter,  \* MiniLoadBalancer.round_robin_counter
    profiling,            \* MiniLoadBalancer.profiling
    recording,            \* MiniLoadBalancer.recording
    rpc,                  \* generation request -> position of its handler
    picked,               \* generation request -> what select_pair returned to it
    selLog,               \* the calls of select_pair in the order they ran
    dpc,                  \* the dispatch followed in detail: position of its coroutine
    dreq,                 \* its request: endpoint, the body, and the body's "stream" field
    dpicked,              \* what select_pair returned to it
    legs,                 \* its two session.post calls: prefill and decode
    prefill_response,     \* stream_results' local variable prefill_response
    emitted,              \* what stream_results has yielded so far
    released,             \* calls of prefill_response.release()
    dfault,               \* where a transport fault hit this dispatch, if one did
    dresult,              \* what generate returned or raised
    modified_request,     \* the handler's local modified_request: the augmented body
    sent,                 \* leg -> the url and json of its session.post, once issued
    apc,                  \* admin/info caller -> position of the handler it called
    acmd,                 \* admin/info caller -> the route it called
    posts,                \* admin/info caller -> the backend calls of that handler
    aresult               \* admin/info caller -> what the handler returned or raised

vars == <<prefill_configs, decode_servers, round_robin_counter, profiling,
          recording, rpc, picked, selLog, dpc, dreq, dpicked, legs,
          prefill_response, emitted, released, dfault, dresult,
          modified_request, sent, apc, acmd, posts, aresult>>

registryVars == <<prefill_configs, decode_servers>>
adminVars == <<profiling, recording>>
selectVars == <<rpc, picked, selLog>>
dispatchVars == <<dpc, dreq, dpicked, legs, prefill_response, emitted, released,
                  dfault, dresult, modified_request, sent>>
callerVars == <<apc, acmd, posts, aresult>>

None == [none |-> TRUE]

\* A session.post call: not issued, awaited, failed; BackendResponse when answered.
Unsent == [state |-> "unsent"]
Pending == [state |-> "pending"]
Fault == [state |-> "fault"]
Closed == [state |-> "closed"]
Requests == 1..NumReq
Callers == 1..NumCallers

(***************************************************************************)
(* PrefillConfig and the registry built by the command line.               *)
(***************************************************************************)
PrefillUrl(i) == [scheme |-> "http", hostname |-> <<"prefill", i>>]
DecodeUrl(j) == [scheme |-> "http", hostname |-> <<"decode", j>>]
PrefillConfig(url, bootstrap_port) == [url |-> url, bootstrap_port |-> bootstrap_port]

MakePrefillConfigs(p) == [i \in 1..p |-> PrefillConfig(PrefillUrl(i), DefaultBootstrapPort)]
MakeDecodeServers(d) == [j \in 1..d |-> DecodeUrl(j)]

\* --prefill-bootstrap-ports with a port of its own for each prefill url:
\* prefill_configs.append(PrefillConfig(url, port)) for each zipped pair.
PortList(p) == [i \in 1..p |-> DefaultBootstrapPort + i]
ZipPrefillConfigs(p, bootstrap_ports) ==
    [i \in 1..p |-> PrefillConfig(PrefillUrl(i), bootstrap_ports[i])]

\* prefill_servers = [p.url for p in prefill_configs]
prefill_servers == [i \in 1..Len(prefill_configs) |-> prefill_configs[i].url]

(***************************************************************************)
(* MiniLoadBalancer.__init__                                               *)
(***************************************************************************)
LoadBalancerInit(configs, decodes) ==
    /\ prefill_configs = configs
    /\ decode_servers = decodes
    /\ profiling = FALSE
    /\ recording = FALSE
    /\ round_robin_counter = 0

(***************************************************************************)
(* MiniLoadBalancer.select_pair.  Python indexes from 0, TLA+ sequences    *)
(* from 1: the counter keeps the program's values, 0..len-1.               *)
(***************************************************************************)
CursorIndex(counter) == counter

AdvanceStuck(counter, n) == counter
AdvanceNoWrap(counter, n) == IF counter + 1 < n THEN counter + 1 ELSE counter
AdvanceCursor(counter, n) == (counter + 1) % n

\* The value select_pair returns when random.choice picks decode server d.
SelectPairResult(counter, d) ==
    [index |-> CursorIndex(counter),
     prefill_server |-> prefill_configs[CursorIndex(counter) + 1].url,
     bootstrap_port |-> prefill_configs[CursorIndex(counter) + 1].bootstrap_port,
     decode_server |-> decode_servers[d]]

(***************************************************************************)
(* handle_generate_request / handle_completion_request up to their first   *)
(* await: select_pair, the bootstrap fields, and the two posts of          *)
(* generate / generate_stream handed to asyncio.gather.                    *)
(***************************************************************************)
HandleRequest(r) ==
    /\ rpc[r] = "new"
    /\ Len(prefill_configs) >= 1
    /\ \E d \in 1..Len(decode_servers) :
          /\ picked' = [picked EXCEPT ![r] = SelectPairResult(round_robin_counter, d)]
          /\ round_robin_counter' =
                AdvanceCursor(round_robin_counter, Len(prefill_configs))
          /\ selLog' = Append(selLog, r)
          /\ rpc' = [rpc EXCEPT ![r] = "gather"]
    /\ UNCHANGED <<registryVars, adminVars, dispatchVars, callerVars>>

\* The dispatch of request r ends: with the decode leg's response, or with
\* the exception of a failed leg.
DispatchReturns(r) ==
    /\ rpc[r] = "gather"
    /\ rpc' = [rpc EXCEPT ![r] = "responded"]
    /\ UNCHANGED <<registryVars, adminVars, dispatchVars, callerVars, round_robin_counter,
                   picked, selLog>>

DispatchRaises(r) ==
    /\ rpc[r] = "gather"
    /\ rpc' = [rpc EXCEPT ![r] = "raised"]
    /\ UNCHANGED <<registryVars, adminVars, dispatchVars, callerVars, round_robin_counter,
                   picked, selLog>>

\* No generation request has arrived.
NoRequests ==
    /\ rpc = [r \in Requests |-> "new"]
    /\ picked = [r \in Requests |-> None]
    /\ selLog = <<>>

\* No dispatch is followed in detail.
NoDispatch ==
    /\ dpc = "idle"
    /\ dreq = None
    /\ dpicked = None
    /\ legs = [prefill |-> Unsent, decode |-> Unsent]
    /\ prefill_response = None
    /\ emitted = <<>>
    /\ released = 0
    /\ dfault = "none"
    /\ dresult = None
    /\ modified_request = None
    /\ sent = None

\* chain(self.prefill_servers, self.decode_servers)
AllServers == prefill_servers \o decode_servers
NoPosts == [b \in DOMAIN AllServers |-> Unsent]

\* No admin or info route has been called.
NoCalls ==
    /\ apc = [c \in Callers |-> "idle"]
    /\ acmd = [c \in Callers |-> "none"]
    /\ posts = [c \in Callers |-> NoPosts]
    /\ aresult = [c \in Callers |-> None]

InitSelect ==
    /\ \E p \in 1..MaxPrefill, d \in 1..MaxDecode :
          LoadBalancerInit(MakePrefillConfigs(p), MakeDecodeServers(d))
    /\ NoRequests
    /\ NoDispatch
    /\ NoCalls

NextSelect ==
    \E r \in Requests :
        \/ HandleRequest(r)
        \/ DispatchReturns(r)
        \/ DispatchRaises(r)

SpecSelect == InitSelect /\ [][NextSelect]_vars

(***************************************************************************)
(* select_pair on a load balancer built with an empty pool: run and        *)
(* __init__ take the lists as they are given.                              *)
(***************************************************************************)
\* self.prefill_configs[self.round_robin_counter] raises IndexError on an
\* empty prefill pool, before the counter is stored; random.choice raises
\* IndexError on an empty decode pool, after the counter was stored.
SelectPairRaises(r) ==
    /\ rpc[r] = "new"
    /\ Len(prefill_configs) = 0 \/ Len(decode_servers) = 0
    /\ round_robin_counter' =
          IF Len(prefill_configs) = 0 THEN round_robin_counter
          ELSE AdvanceCursor(round_robin_counter, Len(prefill_configs))
    /\ rpc' = [rpc EXCEPT ![r] = "select_raised"]
    /\ UNCHANGED <<registryVars, adminVars, dispatchVars, callerVars, picked, selLog>>

InitPools ==
    /\ \E p \in 0..MaxPrefill, d \in 0..MaxDecode :
          LoadBalancerInit(MakePrefillConfigs(p), MakeDecodeServers(d))
    /\ NoRequests
    /\ NoDispatch
    /\ NoCalls

NextPools ==
    \E r \in Requests :
        \/ HandleRequest(r)
        \/ SelectPairRaises(r)
        \/ DispatchReturns(r)
        \/ DispatchRaises(r)

SpecPools == InitPools /\ [][NextPools]_vars

(***************************************************************************)
(* Request bodies and the bootstrap fields the two generation handlers add *)
(* to them: handle_generate_request, handle_completion_request,            *)
(* _get_request_batch_size and _generate_bootstrap_room.                   *)
(***************************************************************************)
\* JSON values of a body, tagged with the Python type they are parsed to.
\* request.get(key) is None for a missing key and for a null one: JNull.
JNull == [type |-> "NoneType"]
JStr(s) == [type |-> "str", value |-> s]
JInt(i) == [type |-> "int", value |-> i]
JList(items) == [type |-> "list", value |-> items]

\* [x] * n
Replicate(x, n) == [i \in 1..n |-> x]

\* The values random.randint(0, 2**63 - 1) can return.
RoomRange == 0..MaxRoom

\* What _get_request_batch_size returns (None or a length) or raises.
NoBatch == [kind |-> "None"]
BatchOf(n) == [kind |-> "int", n |-> n]
IndexError == [kind |-> "raise", exc |-> "IndexError"]

BatchSizeIdsFirst(request) ==
    IF request.input_ids # JNull
    THEN IF Len(request.input_ids.value) = 0 THEN IndexError
         ELSE IF request.input_ids.value[1].type = "int" THEN NoBatch
         ELSE BatchOf(Len(request.input_ids.value))
    ELSE IF request.text # JNull
    THEN IF request.text.type = "str" THEN NoBatch
         ELSE BatchOf(Len(request.text.value))
    ELSE NoBatch
get_request_batch_size(request) ==
    IF request.text # JNull
    THEN IF request.text.type = "str" THEN NoBatch
         ELSE BatchOf(Len(request.text.value))
    ELSE IF request.input_ids # JNull
    THEN IF Len(request.input_ids.value) = 0 THEN IndexError
         ELSE IF request.input_ids.value[1].type = "int" THEN NoBatch
         ELSE BatchOf(Len(request.input_ids.value))
    ELSE NoBatch

\* modified_request.update({"bootstrap_host": ..., "bootstrap_port": ...,
\*                          "bootstrap_room": ...})
BootstrapUpdate(request, host, port, room) ==
    [stream |-> request.stream, text |-> request.text,
     input_ids |-> request.input_ids, req_id |-> request.req_id,
     bootstrap_host |-> host, bootstrap_port |-> port, bootstrap_room |-> room]

\* handle_generate_request: the bodies modified_request can become, one for
\* each outcome of the calls of _generate_bootstrap_room.
GenerateInjections(request, hostname, bootstrap_port) ==
    LET batch_size == get_request_batch_size(request) IN
    IF batch_size.kind = "int"
    THEN { BootstrapUpdate(request,
                           JList(Replicate(JStr(hostname), batch_size.n)),
                           JList(Replicate(JInt(bootstrap_port), batch_size.n)),
                           JList([i \in 1..batch_size.n |-> JInt(rooms[i])])) :
           rooms \in [1..batch_size.n -> RoomRange] }
    ELSE { BootstrapUpdate(request, JStr(hostname), JInt(bootstrap_port), JInt(room)) :
           room \in RoomRange }

\* handle_completion_request:
\* bootstrap_room = req_id if req_id is not None else random.randint(0, 2**63 - 1)
CompletionRooms(req_id) ==
    IF req_id # JNull THEN {req_id} ELSE {JInt(room) : room \in RoomRange}
CompletionInjections(request, hostname, bootstrap_port) ==
    { BootstrapUpdate(request, JStr(hostname), JInt(bootstrap_port), room) :
      room \in CompletionRooms(request.req_id) }

\* The request a session.post issues: f"{server}/{endpoint}", json=modified_request
Post(server, endpoint, json) == [url |-> <<server, "/", endpoint>>, json |-> json]
PostsWithOtherDecodeBody(prefill_server, decode_server, endpoint, json) ==
    [prefill |-> Post(prefill_server, endpoint, json),
     decode |-> Post(decode_server, endpoint, [json EXCEPT !.bootstrap_room = JNull])]
PostsOf(prefill_server, decode_server, endpoint, json) ==
    [prefill |-> Post(prefill_server, endpoint, json),
     decode |-> Post(decode_server, endpoint, json)]

(***************************************************************************)
(* The dual dispatch of one generation request at a time, in detail:       *)
(* MiniLoadBalancer.generate and MiniLoadBalancer.generate_stream.         *)
(***************************************************************************)
Endpoints == {"generate", "v1/chat/completions"}
Statuses == {200, 503}
Legs == {"prefill", "decode"}

\* What a backend answers on a leg: a status and a JSON document of its own.
BackendResponse(leg, status) ==
    [state |-> "response", status |-> status, body |-> <<leg, "json", status>>]
IsResponse(x) == x.state = "response"

\* An SSE "data:" event: b"data: " + orjson.dumps(payload) + b"\n\n".
SseData(payload) == <<"data: ", payload, "\n\n">>
ErrorEvent == SseData([error |-> [message |-> "Stream processing error"]])
Chunk(k) == <<"decode-chunk", k>>

\* asyncio.gather(*tasks) without return_exceptions: it raises as soon as a
\* task has raised, returns once every task has returned, and waits otherwise.
GatherIgnoringPrefill(l) ==
    IF l.decode = Fault THEN "raise"
    ELSE IF IsResponse(l.decode) /\ l.prefill # Pending THEN "return"
    ELSE "wait"
GatherDecodeOnly(l) ==
    IF \E leg \in Legs : l[leg] = Fault THEN "raise"
    ELSE IF IsResponse(l.decode) THEN "return"
    ELSE "wait"
GatherOutcome(l) ==
    IF \E leg \in Legs : l[leg] = Fault THEN "raise"
    ELSE IF \A leg \in Legs : IsResponse(l[leg]) THEN "return"
    ELSE "wait"

\* ORJSONResponse(content=await decode_response.json(),
\*                status_code=decode_response.status)
ResponseOfPrefill(prefill_resp, decode_resp) ==
    [kind |-> "response", status_code |-> prefill_resp.status, content |-> prefill_resp.body]
ORJSONResponseOf(prefill_resp, decode_resp) ==
    [kind |-> "response", status_code |-> decode_resp.status, content |-> decode_resp.body]

\* An exception that leaves the handler: FastAPI answers 500.
Unhandled(where) == [kind |-> "exception", status_code |-> 500, where |-> where]

\* except Exception as e: yield b"data: " + orjson.dumps(error_msg) + b"\n\n"
AbruptClose(events) == events
OnStreamException(events) == Append(events, ErrorEvent)

\* finally: if prefill_response is not None: await prefill_response.release()
FinallyRelease(resp, count) == IF resp # None THEN count + 1 ELSE count

DispatchOver == dpc \in {"idle", "returned", "raised", "closed", "cancelled"}

\* handle_generate_request / handle_completion_request for the dispatch
\* followed in detail: select_pair, then the bootstrap fields.  A body whose
\* batch size cannot be computed makes the handler raise there.  Otherwise,
\* non-streaming: the handler runs into generate, up to the gather of the two
\* posts; streaming: it returns the StreamingResponse around a generator that
\* has not started.
HandleBody(endpoint, request_data) ==
    /\ DispatchOver
    /\ Len(prefill_configs) >= 1
    /\ round_robin_counter' = AdvanceCursor(round_robin_counter, Len(prefill_configs))
    /\ dreq' = [endpoint |-> endpoint, stream |-> request_data.stream,
                request_data |-> request_data]
    /\ prefill_response' = None
    /\ emitted' = <<>>
    /\ released' = 0
    /\ dfault' = "none"
    /\ \E d \in 1..Len(decode_servers) :
          LET sel == SelectPairResult(round_robin_counter, d)
              hostname == sel.prefill_server.hostname
          IN  /\ dpicked' = sel
              /\ IF endpoint = "generate"
                    /\ get_request_batch_size(request_data) = IndexError
                 THEN /\ modified_request' = request_data
                      /\ dpc' = "raised"
                      /\ dresult' = Unhandled("_get_request_batch_size")
                      /\ legs' = [prefill |-> Unsent, decode |-> Unsent]
                      /\ sent' = None
                 ELSE /\ modified_request' \in
                            IF endpoint = "generate"
                            THEN GenerateInjections(request_data, hostname,
                                                    sel.bootstrap_port)
                            ELSE CompletionInjections(request_data, hostname,
                                                      sel.bootstrap_port)
                      /\ dresult' = None
                      /\ IF request_data.stream
                         THEN /\ dpc' = "created"
                              /\ legs' = [prefill |-> Unsent, decode |-> Unsent]
                              /\ sent' = None
                         ELSE /\ dpc' = "gather"
                              /\ legs' = [prefill |-> Pending, decode |-> Pending]
                              /\ sent' = PostsOf(sel.prefill_server, sel.decode_server,
                                                 endpoint, modified_request')
    /\ UNCHANGED <<registryVars, adminVars, selectVars, callerVars>>

\* A body with one prompt and nothing else but the "stream" field.
PlainBody(stream) ==
    [stream |-> stream, text |-> JStr("one prompt"), input_ids |-> JNull,
     req_id |-> JNull]
HandleDispatch(endpoint, stream) == HandleBody(endpoint, PlainBody(stream))

\* A backend answers a pending post (for a stream: the response headers).
LegResponds(leg, status) ==
    /\ dpc = "gather"
    /\ legs[leg] = Pending
    /\ legs' = [legs EXCEPT ![leg] = BackendResponse(leg, status)]
    /\ UNCHANGED <<registryVars, adminVars, selectVars, callerVars, round_robin_counter, dpc,
                   dreq, modified_request, sent, dpicked, prefill_response, emitted, released, dfault, dresult>>

\* A pending post fails: connection refused, reset, timeout.
LegFaults(leg) ==
    /\ dpc = "gather"
    /\ legs[leg] = Pending
    /\ legs' = [legs EXCEPT ![leg] = Fault]
    /\ dfault' = IF dfault = "none" THEN "open" ELSE dfault
    /\ UNCHANGED <<registryVars, adminVars, selectVars, callerVars, round_robin_counter, dpc,
                   dreq, modified_request, sent, dpicked, prefill_response, emitted, released, dresult>>

(***************************************************************************)
(* MiniLoadBalancer.generate                                               *)
(***************************************************************************)
\* prefill_response, decode_response = await asyncio.gather(*tasks), then
\* the await of decode_response.json()
GenerateGatherReturns ==
    /\ dpc = "gather"
    /\ ~dreq.stream
    /\ GatherOutcome(legs) = "return"
    /\ dpc' = "json"
    /\ UNCHANGED <<registryVars, adminVars, selectVars, callerVars, round_robin_counter, dreq,
                   modified_request, sent,
                   dpicked, legs, prefill_response, emitted, released, dfault, dresult>>

GenerateGatherRaises ==
    /\ dpc = "gather"
    /\ ~dreq.stream
    /\ GatherOutcome(legs) = "raise"
    /\ dpc' = "raised"
    /\ dresult' = Unhandled("gather")
    /\ UNCHANGED <<registryVars, adminVars, selectVars, callerVars, round_robin_counter, dreq,
                   modified_request, sent,
                   dpicked, legs, prefill_response, emitted, released, dfault>>

\* decode_response.json() has read the body: the ORJSONResponse is returned.
GenerateReturns ==
    /\ dpc = "json"
    /\ dpc' = "returned"
    /\ dresult' = ORJSONResponseOf(legs.prefill, legs.decode)
    /\ UNCHANGED <<registryVars, adminVars, selectVars, callerVars, round_robin_counter, dreq,
                   modified_request, sent,
                   dpicked, legs, prefill_response, emitted, released, dfault>>

\* Reading the decode body fails.
GenerateJsonRaises ==
    /\ dpc = "json"
    /\ dpc' = "raised"
    /\ dfault' = "read"
    /\ dresult' = Unhandled("json")
    /\ UNCHANGED <<registryVars, adminVars, selectVars, callerVars, round_robin_counter, dreq,
                   modified_request, sent,
                   dpicked, legs, prefill_response, emitted, released>>

(***************************************************************************)
(* MiniLoadBalancer.generate_stream.stream_results                         *)
(***************************************************************************)
\* The server starts iterating the generator: it runs to the gather.
StreamStarts ==
    /\ dpc = "created"
    /\ dpc' = "gather"
    /\ legs' = [prefill |-> Pending, decode |-> Pending]
    /\ sent' = PostsOf(dpicked.prefill_server, dpicked.decode_server, dreq.endpoint,
                       modified_request)
    /\ UNCHANGED <<registryVars, adminVars, selectVars, callerVars, round_robin_counter, dreq,
                   modified_request,
                   dpicked, prefill_response, emitted, released, dfault, dresult>>

\* Both posts returned: prefill_response is bound and the first chunk awaited.
StreamGatherReturns ==
    /\ dpc = "gather"
    /\ dreq.stream
    /\ GatherOutcome(legs) = "return"
    /\ prefill_response' = legs.prefill
    /\ dpc' = "reading"
    /\ UNCHANGED <<registryVars, adminVars, selectVars, callerVars, round_robin_counter, dreq,
                   modified_request, sent,
                   dpicked, legs, emitted, released, dfault, dresult>>

\* A post raised: the except clause yields the error event.
StreamGatherRaises ==
    /\ dpc = "gather"
    /\ dreq.stream
    /\ GatherOutcome(legs) = "raise"
    /\ emitted' = OnStreamException(emitted)
    /\ dpc' = "yield_error"
    /\ UNCHANGED <<registryVars, adminVars, selectVars, callerVars, round_robin_counter, dreq,
                   modified_request, sent,
                   dpicked, legs, prefill_response, released, dfault, dresult>>

\* async for chunk in decode_response.content: yield chunk
StreamChunk ==
    /\ dpc = "reading"
    /\ Len(emitted) < MaxChunks
    /\ emitted' = Append(emitted, Chunk(Len(emitted) + 1))
    /\ dpc' = "yield_chunk"
    /\ UNCHANGED <<registryVars, adminVars, selectVars, callerVars, round_robin_counter, dreq,
                   modified_request, sent,
                   dpicked, legs, prefill_response, released, dfault, dresult>>

\* The decode stream ends: the loop is left, the finally clause runs and
\* the generator finishes.
StreamEnds ==
    /\ dpc = "reading"
    /\ released' = FinallyRelease(prefill_response, released)
    /\ dpc' = "closed"
    /\ UNCHANGED <<registryVars, adminVars, selectVars, callerVars, round_robin_counter, dreq,
                   modified_request, sent,
                   dpicked, legs, prefill_response, emitted, dfault, dresult>>

\* Reading the decode stream raises: the except clause yields the error event.
StreamReadFaults ==
    /\ dpc = "reading"
    /\ dfault' = "read"
    /\ emitted' = OnStreamException(emitted)
    /\ dpc' = "yield_error"
    /\ UNCHANGED <<registryVars, adminVars, selectVars, callerVars, round_robin_counter, dreq,
                   modified_request, sent,
                   dpicked, legs, prefill_response, released, dresult>>

\* The client took the chunk: the generator is resumed and reads on.
StreamResumes ==
    /\ dpc = "yield_chunk"
    /\ dpc' = "reading"
    /\ UNCHANGED <<registryVars, adminVars, selectVars, callerVars, round_robin_counter, dreq,
                   modified_request, sent,
                   dpicked, legs, prefill_response, emitted, released, dfault, dresult>>

\* The client took the error event: the generator is resumed after the
\* yield of the except clause, runs the finally clause and finishes.
StreamErrorDone ==
    /\ dpc = "yield_error"
    /\ released' = FinallyRelease(prefill_response, released)
    /\ dpc' = "closed"
    /\ UNCHANGED <<registryVars, adminVars, selectVars, callerVars, round_robin_counter, dreq,
                   modified_request, sent,
                   dpicked, legs, prefill_response, emitted, dfault, dresult>>

\* The client disconnects.  Waiting in an await, the generator gets
\* CancelledError; suspended at a yield, it gets GeneratorExit when it is
\* closed.  Neither is an Exception: only the finally clause runs.  A
\* generator that never started has nothing to run.
ClientDisconnects ==
    /\ dpc \in {"created", "gather", "reading", "yield_chunk", "yield_error"}
    /\ dreq.stream
    /\ released' = IF dpc = "created" THEN released
                   ELSE FinallyRelease(prefill_response, released)
    /\ dpc' = "cancelled"
    /\ UNCHANGED <<registryVars, adminVars, selectVars, callerVars, round_robin_counter, dreq,
                   modified_request, sent,
                   dpicked, legs, prefill_response, emitted, dfault, dresult>>

InitDispatch ==
    /\ \E p \in 1..MaxPrefill, d \in 1..MaxDecode :
          LoadBalancerInit(MakePrefillConfigs(p), MakeDecodeServers(d))
    /\ NoRequests
    /\ NoDispatch
    /\ NoCalls

NextDispatch ==
    \/ \E endpoint \in Endpoints, stream \in BOOLEAN : HandleDispatch(endpoint, stream)
    \/ \E leg \in Legs, status \in Statuses : LegResponds(leg, status)
    \/ \E leg \in Legs : LegFaults(leg)
    \/ GenerateGatherReturns
    \/ GenerateGatherRaises
    \/ GenerateReturns
    \/ GenerateJsonRaises
    \/ StreamStarts
    \/ StreamGatherReturns
    \/ StreamGatherRaises
    \/ StreamChunk
    \/ StreamEnds
    \/ StreamReadFaults
    \/ StreamResumes
    \/ StreamErrorDone
    \/ ClientDisconnects

SpecDispatch == InitDispatch /\ [][NextDispatch]_vars

(***************************************************************************)
(* The same dispatch under every shape of request body: single prompts,    *)
(* batches of texts and of id-lists, empty lists, and req_id values.       *)
(***************************************************************************)
Texts ==
    {JNull, JStr("one prompt")}
        \cup {JList(Replicate(JStr("prompt"), n)) : n \in 0..MaxBatch}
InputIds ==
    {JNull, JList(<<>>), JList(<<JInt(7), JInt(8)>>)}
        \cup {JList(Replicate(JList(<<JInt(7)>>), n)) : n \in 1..MaxBatch}
ReqIds ==
    {JNull, JInt(0 - 1), JInt(0), JInt(MaxRoom), JInt(MaxRoom + 1), JStr("abc")}

\* Bodies with one of the two fields, and bodies with both.
BodyShapes ==
    {[text |-> text, input_ids |-> JNull] : text \in Texts}
        \cup {[text |-> JNull, input_ids |-> input_ids] : input_ids \in InputIds}
        \cup {[text |-> text, input_ids |-> input_ids] :
              text \in {JStr("one prompt"), JList(<<JStr("prompt")>>)},
              input_ids \in {JList(<<>>), JList(Replicate(JList(<<JInt(7)>>), MaxBatch))}}
GenerateBodies ==
    {[stream |-> stream, text |-> shape.text, input_ids |-> shape.input_ids,
      req_id |-> JNull] :
     stream \in BOOLEAN, shape \in BodyShapes}
CompletionBodies ==
    {[stream |-> stream, text |-> text, input_ids |-> JNull, req_id |-> req_id] :
     stream \in BOOLEAN, text \in {JNull, JList(Replicate(JStr("prompt"), MaxBatch))},
     req_id \in ReqIds}

InitBootstrap ==
    /\ \E p \in 1..MaxPrefill, d \in 1..MaxDecode :
          LoadBalancerInit(ZipPrefillConfigs(p, PortList(p)), MakeDecodeServers(d))
    /\ NoRequests
    /\ NoDispatch
    /\ NoCalls

\* The answer of a finished dispatch has been delivered: its coroutine and
\* the handler's locals are gone.
DispatchDelivered ==
    /\ DispatchOver
    /\ dpc # "idle"
    /\ dpc' = "idle"
    /\ dreq' = None
    /\ dpicked' = None
    /\ legs' = [prefill |-> Unsent, decode |-> Unsent]
    /\ prefill_response' = None
    /\ emitted' = <<>>
    /\ released' = 0
    /\ dfault' = "none"
    /\ dresult' = None
    /\ modified_request' = None
    /\ sent' = None
    /\ UNCHANGED <<registryVars, adminVars, selectVars, callerVars, round_robin_counter>>

\* One more generation request, handled between the steps of the dispatch
\* followed in detail.
OneRequest == {r \in Requests : \A other \in Requests : r <= other}

\* The backends of this specification answer 200 or fail, and their decode
\* streams carry no chunk.
NextBootstrap ==
    \/ /\ dpc = "idle"
       /\ \/ \E request_data \in GenerateBodies : HandleBody("generate", request_data)
          \/ \E request_data \in CompletionBodies :
                HandleBody("v1/chat/completions", request_data)
    \/ \E r \in OneRequest : HandleRequest(r)
    \/ \E leg \in Legs : LegResponds(leg, 200)
    \/ \E leg \in Legs : LegFaults(leg)
    \/ GenerateGatherReturns
    \/ GenerateGatherRaises
    \/ GenerateReturns
    \/ GenerateJsonRaises
    \/ StreamStarts
    \/ StreamGatherReturns
    \/ StreamGatherRaises
    \/ StreamEnds
    \/ StreamErrorDone
    \/ ClientDisconnects
    \/ DispatchDelivered

SpecBootstrap == InitBootstrap /\ [][NextBootstrap]_vars

(***************************************************************************)
(* The admin routes: the guarded pairs and the unconditional broadcasts of *)
(* MiniLoadBalancer, and the /v1/models proxy.                            *)
(***************************************************************************)
GuardedCommands == {"start_profile", "stop_profile",
                    "start_expert_distribution_record",
                    "stop_expert_distribution_record"}
UnconditionalCommands == {"dump_expert_distribution_record", "eplb_rebalance",
                          "eplb_save_expert_distribution"}
BroadcastCommands == GuardedCommands \cup UnconditionalCommands

\* if self.profiling: return ... / if not self.profiling: return ...
\* (likewise self.recording); the unconditional commands have no guard.
NeverRejects(cmd, prof, rec) == FALSE
GuardRejects(cmd, prof, rec) ==
    CASE cmd = "start_profile" -> prof
      [] cmd = "stop_profile" -> ~prof
      [] cmd = "start_expert_distribution_record" -> rec
      [] cmd = "stop_expert_distribution_record" -> ~rec
      [] OTHER -> FALSE

RejectMessage(cmd) ==
    CASE cmd = "start_profile" -> "Profiling is already in progress"
      [] cmd = "stop_profile" -> "Profiling is not in progress"
      [] cmd = "start_expert_distribution_record" -> "Recoding is already in progress"
      [] cmd = "stop_expert_distribution_record" -> "Recoding is not in progress"

SuccessMessage(cmd) ==
    CASE cmd = "start_profile" -> "Profiling started"
      [] cmd = "stop_profile" -> "Profiling stopped"
      [] cmd = "start_expert_distribution_record" -> "Recording expert distribution started"
      [] cmd = "stop_expert_distribution_record" -> "Recording expert distribution stopped"
      [] cmd = "dump_expert_distribution_record" -> "Dumping expert distribution succeed"
      [] cmd = "eplb_rebalance" -> "EPLB rebalanced"
      [] cmd = "eplb_save_expert_distribution" -> "Saving expert distribution succeed"

FailureMessage(cmd) ==
    CASE cmd = "start_profile" -> "Failed to start profiling"
      [] cmd = "stop_profile" -> "Failed to stop profiling"
      [] cmd = "start_expert_distribution_record" -> "Failed to start recording expert distribution"
      [] cmd = "stop_expert_distribution_record" -> "Failed to stop recording expert distribution"
      [] cmd = "dump_expert_distribution_record" -> "Failed to dumping expert distribution"
      [] cmd = "eplb_rebalance" -> "Failed to rebalancing EPLB."
      [] cmd = "eplb_save_expert_distribution" -> "Failed to saving expert distribution."

AdminResult(success, message) ==
    [kind |-> "result", success |-> success, message |-> message]

\* self.profiling = True / self.profiling = False, before the session is opened
ProfilingUntouched(cmd, prof) == prof
ProfilingRaised(cmd, prof) == TRUE
ProfilingOnAccept(cmd, prof) ==
    CASE cmd = "start_profile" -> TRUE
      [] cmd = "stop_profile" -> FALSE
      [] OTHER -> prof

\* self.recording = True / self.recording = False, before the session is opened
RecordingUntouched(cmd, rec) == rec
RecordingOnAccept(cmd, rec) ==
    CASE cmd = "start_expert_distribution_record" -> TRUE
      [] cmd = "stop_expert_distribution_record" -> FALSE
      [] OTHER -> rec

\* for server in chain(self.prefill_servers, self.decode_servers):
\*     tasks.append(session.post(f"{server}/<command>"))
BroadcastPosts == [b \in DOMAIN AllServers |-> Pending]

\* success = all(response.status == 200 for response in responses)
AllOk(responses) == \A b \in DOMAIN responses : responses[b].status = 200

\* return {"success": success, "message": ... if success else ...}
BroadcastResult(cmd, responses) ==
    AdminResult(AllOk(responses),
                IF AllOk(responses) THEN SuccessMessage(cmd) ELSE FailureMessage(cmd))

\* asyncio.gather over the posts of a broadcast returns once every post has.
GatherAll(p) == \A b \in DOMAIN p : IsResponse(p[b])

\* A broadcast command is called: the guard, the flag, and the posts handed
\* to asyncio.gather.
AdminCall(c, cmd) ==
    /\ apc[c] = "idle"
    /\ acmd' = [acmd EXCEPT ![c] = cmd]
    /\ IF GuardRejects(cmd, profiling, recording)
       THEN /\ aresult' = [aresult EXCEPT ![c] = AdminResult(FALSE, RejectMessage(cmd))]
            /\ apc' = [apc EXCEPT ![c] = "done"]
            /\ posts' = [posts EXCEPT ![c] = NoPosts]
            /\ UNCHANGED adminVars
       ELSE /\ profiling' = ProfilingOnAccept(cmd, profiling)
            /\ recording' = RecordingOnAccept(cmd, recording)
            /\ posts' = [posts EXCEPT ![c] = BroadcastPosts]
            /\ apc' = [apc EXCEPT ![c] = "gather"]
            /\ aresult' = [aresult EXCEPT ![c] = None]
    /\ UNCHANGED <<registryVars, round_robin_counter, selectVars, dispatchVars>>

\* A backend answers a call of caller c's handler.
BackendResponds(c, b, status) ==
    /\ apc[c] = "gather"
    /\ b \in DOMAIN posts[c]
    /\ posts[c][b] = Pending
    /\ posts' = [posts EXCEPT ![c][b] = BackendResponse(b, status)]
    /\ UNCHANGED <<registryVars, adminVars, round_robin_counter, selectVars,
                   dispatchVars, apc, acmd, aresult>>

\* responses = await asyncio.gather(*tasks); success = all(...); return {...}
BroadcastReturns(c) ==
    /\ apc[c] = "gather"
    /\ acmd[c] \in BroadcastCommands
    /\ GatherAll(posts[c])
    /\ aresult' = [aresult EXCEPT ![c] = BroadcastResult(acmd[c], posts[c])]
    /\ apc' = [apc EXCEPT ![c] = "done"]
    /\ UNCHANGED <<registryVars, adminVars, round_robin_counter, selectVars,
                   dispatchVars, acmd, posts>>

\* A post raises: gather raises, nothing in the handler catches it, the
\* session is closed on the way out and the exception leaves the handler.
BroadcastRaises(c, b) ==
    /\ apc[c] = "gather"
    /\ acmd[c] \in BroadcastCommands
    /\ b \in DOMAIN posts[c]
    /\ posts[c][b] = Pending
    /\ posts' = [posts EXCEPT ![c] = [x \in DOMAIN AllServers |-> Closed]]
    /\ aresult' = [aresult EXCEPT ![c] = Unhandled("gather")]
    /\ apc' = [apc EXCEPT ![c] = "done"]
    /\ UNCHANGED <<registryVars, adminVars, round_robin_counter, selectVars,
                   dispatchVars, acmd>>

\* The caller has its answer and may call again.
CallerReceives(c) ==
    /\ apc[c] = "done"
    /\ apc' = [apc EXCEPT ![c] = "idle"]
    /\ acmd' = [acmd EXCEPT ![c] = "none"]
    /\ posts' = [posts EXCEPT ![c] = NoPosts]
    /\ aresult' = [aresult EXCEPT ![c] = None]
    /\ UNCHANGED <<registryVars, adminVars, round_robin_counter, selectVars,
                   dispatchVars>>

(***************************************************************************)
(* get_models: GET /v1/models                                              *)
(***************************************************************************)
HTTPException(status_code, detail) ==
    [kind |-> "http_exception", status_code |-> status_code, detail |-> detail]

\* except Exception as e: raise HTTPException(status_code=500, detail=str(e))
\* HTTPException is an Exception: the clause also catches the one raised in
\* the try block for a non-200 status.
ExceptClause(e) == HTTPException(500, <<"str", e>>)

\* prefill_server = load_balancer.prefill_servers[0];
\* response = await session.get(f"{prefill_server}/v1/models")
ModelsPosts == [b \in DOMAIN AllServers |-> IF b = 1 THEN Pending ELSE Unsent]

ModelsCall(c) ==
    /\ apc[c] = "idle"
    /\ Len(prefill_configs) >= 1
    /\ acmd' = [acmd EXCEPT ![c] = "v1/models"]
    /\ posts' = [posts EXCEPT ![c] = ModelsPosts]
    /\ apc' = [apc EXCEPT ![c] = "gather"]
    /\ aresult' = [aresult EXCEPT ![c] = None]
    /\ UNCHANGED <<registryVars, adminVars, round_robin_counter, selectVars, dispatchVars>>

\* The get returned: a non-200 status raises HTTPException(status) inside the
\* try block; 200 goes on to await response.json().
ModelsGetReturns(c) ==
    /\ apc[c] = "gather"
    /\ acmd[c] = "v1/models"
    /\ IsResponse(posts[c][1])
    /\ IF posts[c][1].status # 200
       THEN /\ aresult' = [aresult EXCEPT ![c] =
                   ExceptClause(HTTPException(posts[c][1].status, "Prefill server error"))]
            /\ apc' = [apc EXCEPT ![c] = "done"]
       ELSE /\ apc' = [apc EXCEPT ![c] = "json"]
            /\ UNCHANGED aresult
    /\ UNCHANGED <<registryVars, adminVars, round_robin_counter, selectVars,
                   dispatchVars, acmd, posts>>

\* The get raises: the except clause turns it into a 500.
ModelsGetRaises(c) ==
    /\ apc[c] = "gather"
    /\ acmd[c] = "v1/models"
    /\ posts[c][1] = Pending
    /\ posts' = [posts EXCEPT ![c][1] = Fault]
    /\ aresult' = [aresult EXCEPT ![c] = ExceptClause("transport fault")]
    /\ apc' = [apc EXCEPT ![c] = "done"]
    /\ UNCHANGED <<registryVars, adminVars, round_robin_counter, selectVars,
                   dispatchVars, acmd>>

\* return ORJSONResponse(content=await response.json())
ModelsJsonReturns(c) ==
    /\ apc[c] = "json"
    /\ aresult' = [aresult EXCEPT ![c] =
            [kind |-> "response", status_code |-> 200, content |-> posts[c][1].body]]
    /\ apc' = [apc EXCEPT ![c] = "done"]
    /\ UNCHANGED <<registryVars, adminVars, round_robin_counter, selectVars,
                   dispatchVars, acmd, posts>>

\* Reading the body raises: the except clause turns it into a 500.
ModelsJsonRaises(c) ==
    /\ apc[c] = "json"
    /\ aresult' = [aresult EXCEPT ![c] = ExceptClause("body fault")]
    /\ apc' = [apc EXCEPT ![c] = "done"]
    /\ UNCHANGED <<registryVars, adminVars, round_robin_counter, selectVars,
                   dispatchVars, acmd, posts>>

(***************************************************************************)
(* The health and info routes: /health, /health_generate, /flush_cache,    *)
(* /get_server_info and /get_model_info.                                   *)
(***************************************************************************)
FanoutCommands == {"health_generate", "flush_cache"}

\* Response(status_code=200)
Response(status_code) == [kind |-> "response", status_code |-> status_code]

\* for i, response in enumerate(asyncio.as_completed(tasks)): await response
\* The loop is left once every post has returned, in the order they return.
FirstCompleted(p) == \E b \in DOMAIN p : IsResponse(p[b])
AsCompleted(p) == \A b \in DOMAIN p : IsResponse(p[b])

\* /health_generate or /flush_cache is called: one post to each server of
\* chain(prefill_servers, decode_servers), handed to asyncio.as_completed.
FanoutCall(c, cmd) ==
    /\ apc[c] = "idle"
    /\ acmd' = [acmd EXCEPT ![c] = cmd]
    /\ posts' = [posts EXCEPT ![c] = BroadcastPosts]
    /\ apc' = [apc EXCEPT ![c] = "gather"]
    /\ aresult' = [aresult EXCEPT ![c] = None]
    /\ UNCHANGED <<registryVars, adminVars, round_robin_counter, selectVars, dispatchVars>>

\* Every post has returned: return Response(status_code=200), whatever the
\* statuses were.
FanoutReturns(c) ==
    /\ apc[c] = "gather"
    /\ acmd[c] \in FanoutCommands
    /\ AsCompleted(posts[c])
    /\ aresult' = [aresult EXCEPT ![c] = Response(200)]
    /\ apc' = [apc EXCEPT ![c] = "done"]
    /\ UNCHANGED <<registryVars, adminVars, round_robin_counter, selectVars,
                   dispatchVars, acmd, posts>>

\* A post raises: await response raises, the session is closed on the way
\* out and the exception leaves the handler.
FanoutRaises(c, b) ==
    /\ apc[c] = "gather"
    /\ acmd[c] \in FanoutCommands
    /\ b \in DOMAIN posts[c]
    /\ posts[c][b] = Pending
    /\ posts' = [posts EXCEPT ![c] = [x \in DOMAIN AllServers |-> Closed]]
    /\ aresult' = [aresult EXCEPT ![c] = Unhandled("as_completed")]
    /\ apc' = [apc EXCEPT ![c] = "done"]
    /\ UNCHANGED <<registryVars, adminVars, round_robin_counter, selectVars,
                   dispatchVars, acmd>>

\* GET /health: return Response(status_code=200), no backend is asked.
HealthCall(c) ==
    /\ apc[c] = "idle"
    /\ acmd' = [acmd EXCEPT ![c] = "health"]
    /\ posts' = [posts EXCEPT ![c] = NoPosts]
    /\ aresult' = [aresult EXCEPT ![c] = Response(200)]
    /\ apc' = [apc EXCEPT ![c] = "done"]
    /\ UNCHANGED <<registryVars, adminVars, round_robin_counter, selectVars, dispatchVars>>

\* GET /get_model_info: return ORJSONResponse(content=model_info), a fixed
\* document.
ModelInfo ==
    [model_path |-> "/path/to/dummy/model", tokenizer_path |-> "/path/to/dummy/tokenizer",
     is_generation |-> TRUE]
GetModelInfoCall(c) ==
    /\ apc[c] = "idle"
    /\ acmd' = [acmd EXCEPT ![c] = "get_model_info"]
    /\ posts' = [posts EXCEPT ![c] = NoPosts]
    /\ aresult' = [aresult EXCEPT ![c] =
            [kind |-> "response", status_code |-> 200, content |-> ModelInfo]]
    /\ apc' = [apc EXCEPT ![c] = "done"]
    /\ UNCHANGED <<registryVars, adminVars, round_robin_counter, selectVars, dispatchVars>>

\* GET /get_server_info asks the servers one after the other, the prefill
\* servers first: the first get is issued.
ServerInfoCall(c) ==
    /\ apc[c] = "idle"
    /\ Len(AllServers) >= 1
    /\ acmd' = [acmd EXCEPT ![c] = "get_server_info"]
    /\ posts' = [posts EXCEPT ![c] = ModelsPosts]
    /\ apc' = [apc EXCEPT ![c] = "gather"]
    /\ aresult' = [aresult EXCEPT ![c] = None]
    /\ UNCHANGED <<registryVars, adminVars, round_robin_counter, selectVars, dispatchVars>>

\* return {"prefill": prefill_infos, "decode": decode_infos}
ServerInfoResult(p) ==
    [kind |-> "info",
     prefill |-> [i \in 1..Len(prefill_servers) |-> p[i].body],
     decode |-> [j \in 1..Len(decode_servers) |-> p[Len(prefill_servers) + j].body]]

\* server_info = await session.get(...); ....append(await server_info.json()):
\* the get of server b returned and its body was read; the next server is
\* asked, or the two lists are returned after the last one.
ServerInfoNext(c, b) ==
    /\ apc[c] = "gather"
    /\ acmd[c] = "get_server_info"
    /\ b \in DOMAIN posts[c]
    /\ IsResponse(posts[c][b])
    /\ IF b < Len(AllServers)
       THEN /\ posts[c][b + 1] = Unsent
            /\ posts' = [posts EXCEPT ![c][b + 1] = Pending]
            /\ UNCHANGED <<apc, aresult>>
       ELSE /\ aresult' = [aresult EXCEPT ![c] = ServerInfoResult(posts[c])]
            /\ apc' = [apc EXCEPT ![c] = "done"]
            /\ UNCHANGED posts
    /\ UNCHANGED <<registryVars, adminVars, round_robin_counter, selectVars,
                   dispatchVars, acmd>>

\* A get or the reading of its body raises: the exception leaves the handler.
ServerInfoRaises(c, b) ==
    /\ apc[c] = "gather"
    /\ acmd[c] = "get_server_info"
    /\ b \in DOMAIN posts[c]
    /\ posts[c][b] = Pending
    /\ posts' = [posts EXCEPT ![c][b] = Fault]
    /\ aresult' = [aresult EXCEPT ![c] = Unhandled("get_server_info")]
    /\ apc' = [apc EXCEPT ![c] = "done"]
    /\ UNCHANGED <<registryVars, adminVars, round_robin_counter, selectVars,
                   dispatchVars, acmd>>

(***************************************************************************)
(* SpecOps: one client calling the admin and info routes one after the     *)
(* other, against pools of every size.                                     *)
(***************************************************************************)
OneCaller == {c \in Callers : \A other \in Callers : c <= other}

InitOps ==
    /\ \E p \in 1..MaxPrefill, d \in 1..MaxDecode :
          LoadBalancerInit(MakePrefillConfigs(p), MakeDecodeServers(d))
    /\ NoRequests
    /\ NoDispatch
    /\ NoCalls

NextOps ==
    \E c \in OneCaller :
        \/ \E cmd \in BroadcastCommands : AdminCall(c, cmd)
        \/ \E b \in DOMAIN AllServers, status \in Statuses : BackendResponds(c, b, status)
        \/ BroadcastReturns(c)
        \/ \E b \in DOMAIN AllServers : BroadcastRaises(c, b)
        \/ CallerReceives(c)
        \/ ModelsCall(c)
        \/ ModelsGetReturns(c)
        \/ ModelsGetRaises(c)
        \/ ModelsJsonReturns(c)
        \/ ModelsJsonRaises(c)

SpecOps == InitOps /\ [][NextOps]_vars

(***************************************************************************)
(* SpecClient: one client calling every route of the load balancer, one    *)
(* call after the other: generation requests, admin commands, health and   *)
(* info routes.                                                            *)
(***************************************************************************)
NoCallInFlight == \A c \in Callers : apc[c] = "idle"

InitClient ==
    /\ \E p \in 1..MaxPrefill, d \in 1..MaxDecode :
          LoadBalancerInit(MakePrefillConfigs(p), MakeDecodeServers(d))
    /\ NoRequests
    /\ NoDispatch
    /\ NoCalls

NextClient ==
    \/ /\ NoCallInFlight
       /\ dpc = "idle"
       /\ \E endpoint \in Endpoints, stream \in BOOLEAN : HandleDispatch(endpoint, stream)
    \/ \E leg \in Legs, status \in Statuses : LegResponds(leg, status)
    \/ \E leg \in Legs : LegFaults(leg)
    \/ GenerateGatherReturns
    \/ GenerateGatherRaises
    \/ GenerateReturns
    \/ GenerateJsonRaises
    \/ StreamStarts
    \/ StreamGatherReturns
    \/ StreamGatherRaises
    \/ StreamChunk
    \/ StreamEnds
    \/ StreamReadFaults
    \/ StreamResumes
    \/ StreamErrorDone
    \/ ClientDisconnects
    \/ DispatchDelivered
    \/ /\ dpc = "idle"
       /\ \E c \in OneCaller :
             \/ \E cmd \in BroadcastCommands : AdminCall(c, cmd)
             \/ \E cmd \in FanoutCommands : FanoutCall(c, cmd)
             \/ HealthCall(c)
             \/ GetModelInfoCall(c)
             \/ ServerInfoCall(c)
             \/ ModelsCall(c)
    \/ \E c \in OneCaller :
          \/ \E b \in DOMAIN AllServers, status \in Statuses : BackendResponds(c, b, status)
          \/ BroadcastReturns(c)
          \/ \E b \in DOMAIN AllServers : BroadcastRaises(c, b)
          \/ FanoutReturns(c)
          \/ \E b \in DOMAIN AllServers : FanoutRaises(c, b)
          \/ \E b \in DOMAIN AllServers : ServerInfoNext(c, b)
          \/ \E b \in DOMAIN AllServers : ServerInfoRaises(c, b)
          \/ ModelsGetReturns(c)
          \/ ModelsGetRaises(c)
          \/ ModelsJsonReturns(c)
          \/ ModelsJsonRaises(c)
          \/ CallerReceives(c)

SpecClient == InitClient /\ [][NextClient]_vars

(***************************************************************************)
(* SpecAdminRace: several clients calling the guarded commands at once,    *)
(* against one prefill and one decode server.                              *)
(***************************************************************************)
InitAdminRace ==
    /\ LoadBalancerInit(MakePrefillConfigs(1), MakeDecodeServers(1))
    /\ NoRequests
    /\ NoDispatch
    /\ NoCalls

NextAdminRace ==
    \E c \in Callers :
        \/ \E cmd \in GuardedCommands : AdminCall(c, cmd)
        \/ \E b \in DOMAIN AllServers, status \in Statuses : BackendResponds(c, b, status)
        \/ BroadcastReturns(c)
        \/ \E b \in DOMAIN AllServers : BroadcastRaises(c, b)
        \/ CallerReceives(c)

SpecAdminRace == InitAdminRace /\ [][NextAdminRace]_vars

(***************************************************************************)
(* Properties of the dual dispatch (SpecDispatch).                         *)
(***************************************************************************)
NonStreaming == dreq # None /\ ~dreq.stream
Streaming == dreq # None /\ dreq.stream
GenerateOver == NonStreaming /\ dpc \in {"returned", "raised"}
StreamOver == Streaming /\ dpc \in {"closed", "cancelled"}
BothLegsResponded == IsResponse(legs.prefill) /\ IsResponse(legs.decode)
PrefillOpened == IsResponse(legs.prefill)
DecodeSucceeded == IsResponse(legs.decode) /\ legs.decode.status = 200
PrefillNon200 == IsResponse(legs.prefill) /\ legs.prefill.status # 200

\* C1: in non-streaming mode, whatever the two status codes, when both legs
\* answer (and the decode body is read) generate responds with exactly the
\* decode leg's status code and JSON body, never the prefill leg's body, and
\* a response exists only once both legs have answered.
DecodeResponseReturned ==
    /\ (dresult # None /\ dresult.kind = "response") =>
          /\ NonStreaming /\ dpc = "returned"
          /\ BothLegsResponded
          /\ dresult.status_code = legs.decode.status
          /\ dresult.content = legs.decode.body
          /\ dresult.content # legs.prefill.body
    /\ (GenerateOver /\ BothLegsResponded /\ dfault = "none") =>
          (dresult # None /\ dresult.kind = "response")

\* Both legs answered with different status codes and generate returned.
DecodeResponseReturnedWitness ==
    /\ NonStreaming /\ dpc = "returned"
    /\ legs.prefill.status = 503
    /\ legs.decode.status = 200

\* C2 as stated: a prefill-only failure (a transport fault or a non-200
\* status of the prefill leg while the decode leg answers 200) surfaces as
\* an error, never as the decode leg's response.
PrefillFailureSurfaces ==
    (GenerateOver /\ (legs.prefill = Fault \/ PrefillNon200) /\ DecodeSucceeded) =>
        dresult.kind = "exception"

\* C2 amended: a transport fault of the prefill leg surfaces as an unhandled
\* exception (status 500) even when the decode leg answered 200; a non-200
\* status of the prefill leg does not: with the decode leg answering 200
\* the caller gets the decode leg's 200 response.
PrefillFaultSurfaces ==
    /\ (GenerateOver /\ legs.prefill = Fault) =>
          (dresult.kind = "exception" /\ dresult.status_code = 500)
    /\ (GenerateOver /\ PrefillNon200 /\ DecodeSucceeded /\ dfault = "none") =>
          (dresult.kind = "response" /\ dresult.status_code = 200)

\* The prefill leg failed at the transport, the decode leg answered 200.
PrefillFaultSurfacesWitness ==
    GenerateOver /\ legs.prefill = Fault /\ DecodeSucceeded

\* C3: once a streaming dispatch is over, on whatever exit path, the
\* prefill connection that was opened has been released exactly once.
PrefillReleasedOnce ==
    (StreamOver /\ PrefillOpened) => released = 1

\* The events yielded so far that are the error event.
ErrorPositions == {i \in 1..Len(emitted) : emitted[i] = ErrorEvent}

\* C4: a stream in which a fault was raised (opening the legs or reading the
\* decode stream) yields exactly one error event, as its last event, and
\* then finishes; it never finishes without it, yields nothing after it,
\* and yields no error event without a fault.  (A stream the client ended
\* first, dpc = "cancelled", has nobody left to signal to.)
FaultEndsWithErrorEvent ==
    Streaming =>
        /\ Cardinality(ErrorPositions) <= 1
        /\ ErrorPositions \subseteq {Len(emitted)}
        /\ (ErrorPositions # {}) => (dfault # "none" /\ dpc \in {"yield_error", "closed", "cancelled"})
        /\ (dpc = "yield_error") => (ErrorPositions = {Len(emitted)})
        /\ (dpc = "closed" /\ dfault # "none") => (ErrorPositions = {Len(emitted)})
        /\ (dpc \in {"reading", "yield_chunk"}) => (dfault = "none")

\* A read fault after a forwarded chunk: the stream finished with the error
\* event after the chunk.
FaultEndsWithErrorEventWitness ==
    /\ Streaming /\ dpc = "closed" /\ dfault = "read"
    /\ Len(emitted) = 2
    /\ emitted[1] = Chunk(1)
    /\ emitted[2] = ErrorEvent

(***************************************************************************)
(* Properties of the routing cursor (SpecSelect).                          *)
(***************************************************************************)
NumPrefill == Len(prefill_configs)
IndexAt(k) == picked[selLog[k]].index
Calls == 1..Len(selLog)
TimesChosen(e, i, j) == Cardinality({k \in i..j : IndexAt(k) = e})
Ceil(n, p) == (n + p - 1) \div p

\* C5: in any run of calls of select_pair, the k-th call after a call that
\* saw cursor c returns prefill endpoint (c + k) mod P, so over any N
\* consecutive calls each endpoint is chosen floor(N/P) or ceil(N/P) times.
RoundRobinFair ==
    \A i \in Calls : \A j \in i..Len(selLog) :
        /\ IndexAt(j) = (IndexAt(i) + (j - i)) % NumPrefill
        /\ picked[selLog[j]].prefill_server = prefill_configs[IndexAt(j) + 1].url
        /\ \A e \in 0..(NumPrefill - 1) :
              TimesChosen(e, i, j) \in {(j - i + 1) \div NumPrefill, Ceil(j - i + 1, NumPrefill)}

\* More calls than endpoints, with at least two endpoints: the cursor wrapped.
RoundRobinFairWitness ==
    /\ NumPrefill >= 2
    /\ Len(selLog) > NumPrefill

\* C6: requests interleaved at their awaits never break the cursor: after M
\* selections it is (0 + M) mod P, a request still in flight keeps the index
\* it saw, and two calls saw the same index only a whole number of rounds
\* apart.
CursorAtomic ==
    /\ round_robin_counter = Len(selLog) % NumPrefill
    /\ \A r \in Requests : (rpc[r] = "new") <=> (picked[r] = None)
    /\ Cardinality({selLog[k] : k \in Calls}) = Len(selLog)
    /\ \A i \in Calls : \A j \in Calls :
          (i < j /\ IndexAt(i) = IndexAt(j)) => ((j - i) % NumPrefill = 0)
    /\ \A i \in Calls : i < Len(selLog) =>
          IndexAt(i + 1) = (IndexAt(i) + 1) % NumPrefill

\* Every request has selected and all of them are still awaiting their
\* backends.
CursorAtomicWitness ==
    /\ NumPrefill >= 2
    /\ Len(selLog) = NumReq
    /\ \A r \in Requests : rpc[r] = "gather"

(***************************************************************************)
(* Properties of the admin routes (SpecOps, SpecAdminRace).                *)
(***************************************************************************)
Broadcasted(c) == apc[c] = "done" /\ acmd[c] \in BroadcastCommands /\ posts[c] # NoPosts
EveryBackend200(c) ==
    \A b \in DOMAIN AllServers : IsResponse(posts[c][b]) /\ posts[c][b].status = 200

\* C7: every broadcast command posts to every endpoint of both pools and
\* returns {success, message} with success true iff every backend answered
\* 200; a non-200 status or a transport fault gives success = false as a
\* returned value, never an exception.
BroadcastReturnsVerdict ==
    \A c \in Callers : Broadcasted(c) =>
        /\ \A b \in DOMAIN AllServers : posts[c][b] # Unsent
        /\ aresult[c].kind = "result"
        /\ aresult[c].success <=> EveryBackend200(c)

StartCommands == {"start_profile", "start_expert_distribution_record"}
ProfileCommands == {"start_profile", "stop_profile"}
FlagIn(cmd, prof, rec) == IF cmd \in ProfileCommands THEN prof ELSE rec
FlagOf(cmd) == FlagIn(cmd, profiling, recording)

\* A guarded command called against its flag: a start while the flag is
\* active, a stop while it is inactive.
AgainstFlag(cmd) ==
    /\ cmd \in GuardedCommands
    /\ FlagIn(cmd, profiling, recording) <=> (cmd \in StartCommands)

\* C8: a start called while its flag is active, and a stop called while it
\* is inactive, returns success = false, makes no backend call and leaves
\* both flags as they were, whatever was called before or is in flight.
GuardedRejection ==
    [][\A c \in Callers :
          (apc[c] = "idle" /\ apc'[c] # "idle" /\ AgainstFlag(acmd'[c])) =>
              /\ apc'[c] = "done"
              /\ aresult'[c].kind = "result"
              /\ aresult'[c].success = FALSE
              /\ posts'[c] = NoPosts
              /\ profiling' = profiling
              /\ recording' = recording]_vars

\* A start_profile was rejected while profiling is active.
GuardedRejectionWitness ==
    \E c \in Callers :
        /\ apc[c] = "done"
        /\ acmd[c] = "start_profile"
        /\ aresult[c] = AdminResult(FALSE, "Profiling is already in progress")
        /\ posts[c] = NoPosts
        /\ profiling

\* C9 as stated: the flag is updated only after the broadcast has completed;
\* while the broadcast of an accepted start or stop is in flight the flag
\* does not yet hold the new value.
FlagFlipsAfterBroadcast ==
    \A c \in Callers :
        (apc[c] = "gather" /\ acmd[c] \in GuardedCommands) =>
            (FlagOf(acmd[c]) # (acmd[c] \in StartCommands))

\* C9 amended: the flag is updated in the step that accepts the command,
\* before any backend has been awaited, and the end of the broadcast
\* (success, a non-200 status, an exception) does not change either flag:
\* it stays flipped when the broadcast failed.
FlagFlipsOnAccept ==
    [][\A c \in Callers :
          /\ (apc[c] = "idle" /\ apc'[c] = "gather" /\ acmd'[c] \in GuardedCommands) =>
                /\ FlagIn(acmd'[c], profiling, recording) # (acmd'[c] \in StartCommands)
                /\ FlagIn(acmd'[c], profiling', recording') = (acmd'[c] \in StartCommands)
          /\ (apc[c] = "gather" /\ apc'[c] = "done") =>
                (profiling' = profiling /\ recording' = recording)]_vars

\* The broadcast of start_profile failed on a backend and profiling is set.
FlagFlipsOnAcceptWitness ==
    \E c \in Callers :
        /\ apc[c] = "done"
        /\ acmd[c] = "start_profile"
        /\ aresult[c] = AdminResult(FALSE, "Failed to start profiling")
        /\ \E b \in DOMAIN AllServers : posts[c][b].status = 200
        /\ profiling

\* C10: GET /v1/models asks the first prefill backend only; a non-200 status
\* S of that backend reaches the client as status S, a 200 as the backend's
\* JSON body, and only a fault gives 500.
ModelsStatusVerbatim ==
    \A c \in Callers : (apc[c] = "done" /\ acmd[c] = "v1/models") =>
        /\ \A b \in DOMAIN AllServers : (b # 1) => posts[c][b] = Unsent
        /\ (IsResponse(posts[c][1]) /\ posts[c][1].status # 200) =>
              aresult[c].status_code = posts[c][1].status
        /\ (aresult[c].kind = "response") =>
              (posts[c][1].status = 200 /\ aresult[c].content = posts[c][1].body)

(***************************************************************************)
(* Claims about the bootstrap fields, under SpecBootstrap.                 *)
(***************************************************************************)
\* The handler followed in detail has added the bootstrap fields to its body.
Injected(endpoint) ==
    /\ dreq # None
    /\ dreq.endpoint = endpoint
    /\ "bootstrap_room" \in DOMAIN modified_request
Hostname == dpicked.prefill_server.hostname

\* The shapes of body the batch-size rule names.
SingleShape(body) ==
    \/ body.text.type = "str"
    \/ /\ body.text = JNull
       /\ \/ body.input_ids = JNull
          \/ /\ body.input_ids.type = "list"
             /\ Len(body.input_ids.value) >= 1
             /\ body.input_ids.value[1].type = "int"
BatchShape(body) ==
    \/ body.text.type = "list"
    \/ /\ body.text = JNull
       /\ body.input_ids.type = "list"
       /\ Len(body.input_ids.value) >= 1
       /\ body.input_ids.value[1].type = "list"
BatchLength(body) ==
    IF body.text.type = "list" THEN Len(body.text.value)
    ELSE Len(body.input_ids.value)
IsListOf(v, n) == v.type = "list" /\ Len(v.value) = n

\* C12: on /generate a body with a single-string text, with input_ids whose
\* first element is a scalar, or with neither field gets scalar bootstrap
\* host, port and room; a body with a list of N texts or, without text, a
\* list of N id-lists gets three sequences of exactly N entries, the host
\* and the port of the selected prefill endpoint repeated and N rooms, each
\* in the room range.
BatchShapeFollowed ==
    Injected("generate") =>
        LET body == dreq.request_data
            host == modified_request.bootstrap_host
            port == modified_request.bootstrap_port
            room == modified_request.bootstrap_room
        IN  /\ SingleShape(body) \/ BatchShape(body)
            /\ SingleShape(body) =>
                  /\ host = JStr(Hostname)
                  /\ port = JInt(dpicked.bootstrap_port)
                  /\ room.type = "int" /\ room.value \in RoomRange
            /\ BatchShape(body) =>
                  /\ IsListOf(host, BatchLength(body))
                  /\ IsListOf(port, BatchLength(body))
                  /\ IsListOf(room, BatchLength(body))
                  /\ \A i \in 1..BatchLength(body) :
                        /\ host.value[i] = JStr(Hostname)
                        /\ port.value[i] = JInt(dpicked.bootstrap_port)
                        /\ room.value[i].type = "int"
                        /\ room.value[i].value \in RoomRange

\* A batch was posted whose first two rooms differ: the rooms of a batch
\* are drawn one by one.
BatchShapeFollowedWitness ==
    /\ Injected("generate")
    /\ BatchShape(dreq.request_data)
    /\ IsListOf(modified_request.bootstrap_room, MaxBatch)
    /\ modified_request.bootstrap_room.value[1] # modified_request.bootstrap_room.value[2]
    /\ sent # None

\* C13: a /generate body whose batch shape is malformed (input_ids present
\* but empty, no text) is answered with a 4xx status and no backend request
\* is issued for it.
Malformed(body) == body.text = JNull /\ body.input_ids = JList(<<>>)
MalformedIsClientError ==
    (dreq # None /\ dreq.endpoint = "generate" /\ Malformed(dreq.request_data)) =>
        /\ sent = None
        /\ legs = [prefill |-> Unsent, decode |-> Unsent]
        /\ dresult.status_code \in 400..499

\* C15: on /v1/chat/completions the injected host, port and room are
\* scalars whatever the body's shape, and the room is an integer of the room
\* range: the caller's req_id when the body has one, a random draw otherwise.
CompletionRoomInRange ==
    Injected("v1/chat/completions") =>
        /\ modified_request.bootstrap_host = JStr(Hostname)
        /\ modified_request.bootstrap_port = JInt(dpicked.bootstrap_port)
        /\ (dreq.request_data.req_id # JNull) =>
              modified_request.bootstrap_room = dreq.request_data.req_id
        /\ modified_request.bootstrap_room.type = "int"
        /\ modified_request.bootstrap_room.value \in RoomRange

\* The entries of an injected field: the value itself when it is a scalar.
EntriesOf(v) ==
    IF v.type = "list" THEN {v.value[i] : i \in 1..Len(v.value)} ELSE {v}
ConfigsAt(server) ==
    {i \in 1..Len(prefill_configs) : prefill_configs[i].url = server}

\* C18: the two legs of a dispatch are posted the same augmented body, with
\* the same rooms, and every bootstrap host and port of that body is the
\* hostname and the bootstrap port of the prefill endpoint the prefill leg is
\* posted to, whatever other request ran select_pair in between.
LegsShareBootstrap ==
    (sent # None) =>
        /\ sent.prefill.json = sent.decode.json
        /\ sent.prefill.json = modified_request
        /\ sent.prefill.url[3] = dreq.endpoint
        /\ sent.decode.url[3] = dreq.endpoint
        /\ \E j \in 1..Len(decode_servers) : sent.decode.url[1] = decode_servers[j]
        /\ ConfigsAt(sent.prefill.url[1]) # {}
        /\ \A i \in ConfigsAt(sent.prefill.url[1]) :
              /\ EntriesOf(sent.prefill.json.bootstrap_host)
                    \subseteq {JStr(prefill_configs[i].url.hostname)}
              /\ EntriesOf(sent.prefill.json.bootstrap_port)
                    \subseteq {JInt(prefill_configs[i].bootstrap_port)}

\* A streaming batch was posted after another request had taken the other
\* prefill endpoint from the cursor.
LegsShareBootstrapWitness ==
    /\ sent # None
    /\ dreq.stream
    /\ IsListOf(sent.decode.json.bootstrap_host, MaxBatch)
    /\ \E r \in Requests :
          /\ rpc[r] = "gather"
          /\ picked[r].prefill_server # dpicked.prefill_server
    /\ round_robin_counter = dpicked.index

(***************************************************************************)
(* Claims about the order of the steps of a stream, under SpecDispatch.    *)
(***************************************************************************)
\* The events yielded so far that are chunks of the decode stream.
ChunkPositions == {i \in 1..Len(emitted) : emitted[i] # ErrorEvent}

\* C16: a stream forwards no decode chunk before both legs have been
\* started, that is before both posts have been issued and have returned
\* their responses; and it forwards chunks while the prefill leg is still
\* open, without waiting for it to be finished and released.
ForwardingAfterBothStarted ==
    Streaming =>
        /\ (ChunkPositions # {}) =>
              /\ sent # None
              /\ \A leg \in Legs : IsResponse(legs[leg])
              /\ prefill_response = legs.prefill
        /\ (dpc \in {"reading", "yield_chunk"}) => released = 0

\* A chunk is being forwarded while the prefill response is held open.
ForwardingAfterBothStartedWitness ==
    /\ Streaming
    /\ dpc = "yield_chunk"
    /\ Len(emitted) = MaxChunks
    /\ IsResponse(prefill_response)
    /\ released = 0

(***************************************************************************)
(* Claims about empty pools, under SpecPools.                              *)
(***************************************************************************)
\* C14: select_pair fails whenever the prefill pool or the decode pool is
\* empty, and a selection that fails leaves the routing cursor as it was.
FailingSelectionKeepsCursor ==
    [][\A r \in Requests :
          /\ (rpc[r] = "new" /\ rpc'[r] = "select_raised") =>
                round_robin_counter' = round_robin_counter
          /\ (rpc[r] = "new" /\ rpc'[r] = "gather") =>
                (Len(prefill_configs) >= 1 /\ Len(decode_servers) >= 1)]_vars

(***************************************************************************)
(* Claims about the health, admin and info routes, under SpecClient and    *)
(* SpecAdminRace.                                                          *)
(***************************************************************************)
\* C11: /health_generate and /flush_cache post to every endpoint of both
\* pools and answer 200 only after every backend has answered, in whatever
\* order, and then they answer 200 whatever the statuses of the backends.
FanoutAnswers200 ==
    \A c \in Callers : (acmd[c] \in FanoutCommands) =>
        /\ (apc[c] = "gather") =>
              /\ aresult[c] = None
              /\ \A b \in DOMAIN AllServers : posts[c][b] # Unsent
        /\ (apc[c] = "done" /\ aresult[c].kind = "response") =>
              \A b \in DOMAIN AllServers : IsResponse(posts[c][b])
        /\ (apc[c] = "done" /\ \A b \in DOMAIN AllServers : IsResponse(posts[c][b])) =>
              aresult[c] = Response(200)

\* /flush_cache answered 200 although the last backend answered 503 and the
\* first 200.
FanoutAnswers200Witness ==
    \E c \in Callers :
        /\ apc[c] = "done"
        /\ acmd[c] = "flush_cache"
        /\ aresult[c] = Response(200)
        /\ Len(AllServers) >= 3
        /\ posts[c][1].status = 200
        /\ posts[c][Len(AllServers)].status = 503

\* C17: dump_expert_distribution_record, eplb_rebalance and
\* eplb_save_expert_distribution have no guard: whatever the two flags are,
\* a call broadcasts to every backend, and from the call to its answer
\* neither flag nor the routing cursor changes.
UnconditionalBroadcast ==
    [][\A c \in Callers :
          /\ (apc[c] = "idle" /\ apc'[c] # "idle"
                /\ acmd'[c] \in UnconditionalCommands) =>
                /\ apc'[c] = "gather"
                /\ posts'[c] = BroadcastPosts
          /\ (acmd[c] \in UnconditionalCommands \/ acmd'[c] \in UnconditionalCommands) =>
                /\ profiling' = profiling
                /\ recording' = recording
                /\ round_robin_counter' = round_robin_counter]_vars

\* eplb_rebalance is being broadcast while profiling and recording are both
\* active and the cursor is not at its start.
UnconditionalBroadcastWitness ==
    \E c \in Callers :
        /\ apc[c] = "gather"
        /\ acmd[c] = "eplb_rebalance"
        /\ posts[c] = BroadcastPosts
        /\ profiling
        /\ recording
        /\ round_robin_counter = 1

\* C19: of the start commands of one kind called while its flag is set only
\* by them, one is accepted and broadcasts; a start called while the flag is
\* active is rejected with success false and no backend call; and the flag
\* is lowered only by an accepted stop, so two start broadcasts of one kind
\* are never both in flight without a stop accepted between them.
SingleStartBroadcast ==
    [][/\ \A c \in Callers :
             (apc[c] = "idle" /\ apc'[c] # "idle" /\ acmd'[c] \in StartCommands) =>
                 IF FlagIn(acmd'[c], profiling, recording)
                 THEN /\ apc'[c] = "done"
                      /\ aresult'[c] = AdminResult(FALSE, RejectMessage(acmd'[c]))
                      /\ posts'[c] = NoPosts
                 ELSE /\ apc'[c] = "gather"
                      /\ posts'[c] = BroadcastPosts
                      /\ FlagIn(acmd'[c], profiling', recording')
       /\ (profiling /\ ~profiling') =>
             \E c \in Callers :
                 apc[c] = "idle" /\ apc'[c] = "gather" /\ acmd'[c] = "stop_profile"
       /\ (recording /\ ~recording') =>
             \E c \in Callers :
                 /\ apc[c] = "idle" /\ apc'[c] = "gather"
                 /\ acmd'[c] = "stop_expert_distribution_record"]_vars

\* Two callers started the recording at once: the broadcast of one is in
\* flight and the other was rejected without a backend call.
SingleStartBroadcastWitness ==
    \E c1, c2 \in Callers :
        /\ c1 # c2
        /\ apc[c1] = "gather"
        /\ acmd[c1] = "start_expert_distribution_record"
        /\ apc[c2] = "done"
        /\ acmd[c2] = "start_expert_distribution_record"
        /\ aresult[c2] = AdminResult(FALSE, "Recoding is already in progress")
        /\ posts[c2] = NoPosts
        /\ recording

\* C20: with P >= 1 prefill endpoints the cursor is always in 0..P-1; the
\* handler of a /generate or /v1/chat/completions request advances it by
\* exactly one modulo P, whether or not the dispatch fails afterwards, and
\* no other step (of a dispatch, of an admin command, of a health, info or
\* model route) changes it.
CursorStepsPerRequest ==
    [][/\ round_robin_counter \in 0..(NumPrefill - 1)
       /\ round_robin_counter' \in 0..(NumPrefill - 1)
       /\ IF dpc = "idle" /\ dpc' # "idle"
          THEN round_robin_counter' = (round_robin_counter + 1) % NumPrefill
          ELSE round_robin_counter' = round_robin_counter]_vars

\* The cursor has wrapped around to 0 over the largest pool, the last
\* dispatch raised, and an admin command was accepted in between.
CursorStepsPerRequestWitness ==
    /\ NumPrefill = MaxPrefill
    /\ MaxPrefill >= 2
    /\ round_robin_counter = 0
    /\ dpc = "raised"
    /\ dpicked.index = MaxPrefill - 1
    /\ profiling

=============================================================================
